---- MODULE Spec2Model ----
(***************************************************************************)
(* A model of fwtool.py, the pack/unpack tool for Insta360 X3 firmware     *)
(* files and their RomFS archives.                                         *)
(*                                                                         *)
(* Buffers are sequences of bytes (0..255).  A file cursor is a 0-based    *)
(* position into such a sequence.  Sizes, offsets and the integer fields   *)
(* of the metadata are naturals, packed and unpacked arithmetically.       *)
(* CRC-32 values and the magic numbers reach 2^32-1, beyond the integers   *)
(* of the model checker, and are held as words: their four little-endian   *)
(* bytes, which is the form pack("<I", ...) gives them.  Python strings    *)
(* are sequences of code points.                                           *)
(***************************************************************************)
EXTENDS Integers, Sequences, FiniteSets, TLC

VARIABLES
    mode,      \* which command line scenario the run is in
    pc,        \* position of the run
    file,      \* the packed file on disk (firmware, body or RomFS archive)
    orig,      \* the packed file as the encoder wrote it or as unpack was given it
    dir,       \* the unpacked directory
    res,       \* outcome of the last decoder run
    inp,       \* the inputs the run started from
    tamper,    \* the byte the environment changed in the file, if any
    rom        \* loop state of decode_romfs

vars == <<mode, pc, file, orig, dir, res, inp, tamper, rom>>

----------------------------------------------------------------------------
(* Program constants                                                       *)

MD5_LEN == 16
TRAILER_LEN == 100
HEADER1_LEN == 48
HEADER_SEG_LEN == 8
HEADER_SEG_COUNT == 16
HEADER_EXTRA_LEN == 384
SEGHEADER_LEN == 256
SEGHEADER_PAD_LEN == 228
ROMFS_HEADER_LEN == 40960
ROMFS_BLOCK_LEN == 2048
ROMFS_ENTRY_LEN == 76
ROMFS_NAME_LEN == 64
NUM_SEGMENTS == 6

HEADER_MAGIC == <<230, 223, 50, 135>>
SEGMENT_VERSION == 16777216
SEGMENT_MAGIC == <<144, 235, 36, 163>>
ROMFS_MAGIC == <<138, 50, 252, 102>>

PRODUCT_NAME == <<111, 110, 101, 120, 51>>
HW_ID == <<87, 70, 78, 73, 51, 88, 78, 79>>
HW_REV == 1

----------------------------------------------------------------------------
(* Bytes, struct.pack / struct.unpack, file reads                          *)

Min(a, b) == IF a < b THEN a ELSE b

\* the one element of a singleton set; {f(v) : v \in {e}} has e evaluated once
The(S) == CHOOSE v \in S : TRUE

\* bytes(n)
Zeros(n) == SubSeq([i \in 1..n |-> 0], 1, n)

\* file.read(n) at cursor pos: up to n bytes, or everything left when n < 0
ReadN(buf, pos, n) ==
    IF n < 0 THEN SubSeq(buf, pos + 1, Len(buf))
    ELSE SubSeq(buf, pos + 1, Min(pos + n, Len(buf)))

\* pack("<I", n) for 0 <= n < 2^31
PackU32(n) == <<n % 256, (n \div 256) % 256, (n \div 65536) % 256, (n \div 16777216) % 256>>

\* unpack("<I", b)
UnpackU32(b) == b[1] + 256 * b[2] + 65536 * b[3] + 16777216 * b[4]

\* pack("<Q", n) for 0 <= n < 2^31
PackU64(n) == PackU32(n) \o <<0, 0, 0, 0>>

\* unpack("<Q", b).  Values of 2^32 and more are beyond the model's integers;
\* they are all read as -1, which differs from every value the code compares
\* this field with.
UnpackU64(b) ==
    IF SubSeq(b, 5, 8) = <<0, 0, 0, 0>> /\ b[4] < 128 THEN UnpackU32(SubSeq(b, 1, 4)) ELSE -1

\* pack("<Ns", b): cut to n bytes or zero-filled to n bytes
PackBytes(b, n) == IF Len(b) >= n THEN SubSeq(b, 1, n) ELSE b \o Zeros(n - Len(b))

\* b.rstrip(b"\0")
RStripNul(b) ==
    LET keep == {i \in 1..Len(b) : b[i] # 0}
        last == IF keep = {} THEN 0 ELSE CHOOSE i \in keep : \A j \in keep : j <= i
    IN SubSeq(b, 1, last)

\* b.decode("latin1"): byte k is code point k
Latin1Decode(b) == [i \in 1..Len(b) |-> b[i]]

\* s.encode(): UTF-8, for code points below 2048
Utf8Char(c) == IF c < 128 THEN <<c>> ELSE <<192 + (c \div 64), 128 + (c % 64)>>

RECURSIVE Utf8Encode(_)
Utf8Encode(s) == IF s = <<>> THEN <<>> ELSE Utf8Char(Head(s)) \o Utf8Encode(Tail(s))

\* bytes.hex() and bytes.fromhex(): two hex digits per byte, as code points
HexDigit(v) == IF v < 10 THEN 48 + v ELSE 87 + v

HexValue(c) == IF c >= 97 THEN c - 87 ELSE IF c >= 65 THEN c - 55 ELSE c - 48

Hex(b) == [i \in 1..(2 * Len(b)) |->
             IF i % 2 = 1 THEN HexDigit(b[(i + 1) \div 2] \div 16) ELSE HexDigit(b[i \div 2] % 16)]

FromHex(s) == [i \in 1..(Len(s) \div 2) |-> 16 * HexValue(s[2 * i - 1]) + HexValue(s[2 * i])]

----------------------------------------------------------------------------
(* zlib.crc32                                                              *)

XorBits(a, b) ==
      ((a + b) % 2)
    + 2 * (((a \div 2) + (b \div 2)) % 2)
    + 4 * (((a \div 4) + (b \div 4)) % 2)
    + 8 * (((a \div 8) + (b \div 8)) % 2)

XorNib == SubSeq([a \in 1..16 |-> SubSeq([b \in 1..16 |-> XorBits(a - 1, b - 1)], 1, 16)], 1, 16)

Xor8(a, b) == 16 * XorNib[(a \div 16) + 1][(b \div 16) + 1] + XorNib[(a % 16) + 1][(b % 16) + 1]

Xor32(u, v) == <<Xor8(u[1], v[1]), Xor8(u[2], v[2]), Xor8(u[3], v[3]), Xor8(u[4], v[4])>>

\* the reflected CRC-32 polynomial 0xEDB88320
CRC_POLY == <<32, 131, 184, 237>>

Shr1(c) == <<(c[1] \div 2) + 128 * (c[2] % 2), (c[2] \div 2) + 128 * (c[3] % 2),
             (c[3] \div 2) + 128 * (c[4] % 2), c[4] \div 2>>

CrcBit(c) == IF c[1] % 2 = 1 THEN Xor32(Shr1(c), CRC_POLY) ELSE Shr1(c)

RECURSIVE CrcBits(_, _)
CrcBits(c, k) == IF k = 0 THEN c ELSE CrcBits(CrcBit(c), k - 1)

CrcTable == SubSeq([i \in 1..256 |-> CrcBits(<<i - 1, 0, 0, 0>>, 8)], 1, 256)

CrcStep(c, b) ==
    LET t == CrcTable[Xor8(c[1], b) + 1]
    IN <<Xor8(c[2], t[1]), Xor8(c[3], t[2]), Xor8(c[4], t[3]), t[4]>>

\* 0xFFFF_FFFF - c, for a word c
Not32(c) == <<255 - c[1], 255 - c[2], 255 - c[3], 255 - c[4]>>

RECURSIVE CrcFold(_, _, _, _)
CrcFold(c, data, lo, hi) ==
    IF lo > hi THEN c
    ELSE IF lo = hi THEN CrcStep(c, data[lo])
    ELSE LET mid == (lo + hi) \div 2
             c1 == CrcFold(c, data, lo, mid)
         IN IF c1[1] >= 0 THEN CrcFold(c1, data, mid + 1, hi) ELSE c1

ZERO32 == <<0, 0, 0, 0>>

\* crc32(data, start)
crc32(data, start) == Not32(CrcFold(Not32(start), data, 1, Len(data)))

----------------------------------------------------------------------------
(* hashlib.md5.  The digest function itself is a library and is not        *)
(* reproduced: it is stood in for by a 16-byte digest of a running state   *)
(* that every byte updates, so that the incremental use the code makes of  *)
(* it (digest, update, digest) is kept, and a change of one byte changes   *)
(* the digest.                                                             *)

MD5_MOD == 65521
MD5_MUL == 257

Md5Init == 1

RECURSIVE Md5Fold(_, _, _, _)
Md5Fold(s, data, lo, hi) ==
    IF lo > hi THEN s
    ELSE IF lo = hi THEN (s * MD5_MUL + data[lo] + 1) % MD5_MOD
    ELSE LET mid == (lo + hi) \div 2
             s1 == Md5Fold(s, data, lo, mid)
         IN IF s1 >= 0 THEN Md5Fold(s1, data, mid + 1, hi) ELSE s1

\* m.update(data)
Md5Update(s, data) == Md5Fold(s, data, 1, Len(data))

\* m.digest()
Md5Digest(s) ==
    SubSeq([i \in 1..MD5_LEN |-> ((IF i % 2 = 1 THEN s ELSE s \div 256) + (i - 1) \div 2) % 256],
           1, MD5_LEN)

----------------------------------------------------------------------------
(* validate_eq, validate_padding.  TRUE when the check passes; a decoder   *)
(* stops at the first check that does not, with the check's description.   *)

validate_eq(actual, expected) == actual = expected

\* validate_padding without its test
validate_padding_Skipped(data) == TRUE

validate_padding(data) == \A i \in 1..Len(data) : data[i] = 0

Fail(desc) == [ok |-> FALSE, err |-> desc]

----------------------------------------------------------------------------
(* _decode_trailer and _encode_trailer                                     *)

TrailerMetadata(product_name, version_name, hw_id, hw_rev) ==
    [product_name |-> product_name, version_name |-> version_name,
     hw_id |-> hw_id, hw_rev |-> hw_rev]

\* validate_eq(h2, final_hash, "final hash")
FinalHashOk(h2, final_hash) == validate_eq(h2, final_hash)

\* validate_eq(h1, body_hash, "hash without trailer")
BodyHashOk(h1, body_hash) == validate_eq(h1, body_hash)

\* the version_name field as decoded: rstrip(b"\0").decode("latin1")
DecodeName(field) == Latin1Decode(RStripNul(field))

decode_trailer(buf) ==
    LET tail_size == TRAILER_LEN + MD5_LEN
        total_size == Len(buf)
        data == ReadN(buf, 0, total_size - tail_size)
        trailer == ReadN(buf, Len(data), TRAILER_LEN)
        final_hash == ReadN(buf, Len(data) + Len(trailer), MD5_LEN)
        rest == ReadN(buf, Len(data) + Len(trailer) + Len(final_hash), -1)
        m1 == Md5Update(Md5Init, data)
        h1 == Md5Digest(m1)
        h2 == Md5Digest(Md5Update(m1, trailer))
    IN IF ~validate_eq(rest, <<>>) THEN Fail("trailing data")
       ELSE IF ~FinalHashOk(h2, final_hash) THEN Fail("final hash")
       ELSE IF Len(trailer) # TRAILER_LEN THEN Fail("struct.error")
       ELSE
         LET body_size == UnpackU32(SubSeq(trailer, 1, 4))
             product_name == DecodeName(SubSeq(trailer, 5, 36))
             version_name == DecodeName(SubSeq(trailer, 37, 68))
             body_hash == SubSeq(trailer, 69, 84)
             hw_id == Latin1Decode(SubSeq(trailer, 85, 92))
             hw_rev == UnpackU64(SubSeq(trailer, 93, 100))
         IN IF ~validate_eq(product_name, PRODUCT_NAME) THEN Fail("product name")
            ELSE IF ~validate_eq(hw_id, HW_ID) THEN Fail("hardware ID")
            ELSE IF ~validate_eq(hw_rev, HW_REV) THEN Fail("hardware revision")
            ELSE IF ~validate_eq(body_size, Len(data)) THEN Fail("size without trailer")
            ELSE IF ~BodyHashOk(h1, body_hash) THEN Fail("hash without trailer")
            ELSE [ok |-> TRUE, err |-> "",
                  metadata |-> TrailerMetadata(product_name, version_name, hw_id, hw_rev),
                  data |-> data]

\* the trailer record followed by the final hash
encode_trailer(metadata, body) ==
    LET m1 == Md5Update(Md5Init, body)
        trailer == PackU32(Len(body))
                   \o PackBytes(Utf8Encode(metadata.product_name), 32)
                   \o PackBytes(Utf8Encode(metadata.version_name), 32)
                   \o PackBytes(Md5Digest(m1), MD5_LEN)
                   \o PackBytes(Utf8Encode(metadata.hw_id), 8)
                   \o PackU64(metadata.hw_rev)
    IN trailer \o Md5Digest(Md5Update(m1, trailer))

----------------------------------------------------------------------------
(* _decode_body and _encode_body                                           *)

SegMetadata(version, date, extra1, extra2) ==
    [version |-> version, date |-> date, extra1 |-> extra1, extra2 |-> extra2]

\* unpack(HEADER_SEG_FORMAT, ...) of slot k (1-based) of the 16: <<size, crc>>
SegInfoAt(buf, k) ==
    LET b == SubSeq(buf, HEADER1_LEN + HEADER_SEG_LEN * (k - 1) + 1,
                         HEADER1_LEN + HEADER_SEG_LEN * k)
    IN <<UnpackU32(SubSeq(b, 1, 4)), SubSeq(b, 5, 8)>>

\* while seg_infos and seg_infos[-1] == (0, 0): seg_infos.pop()
RECURSIVE TrimSegInfos(_)
TrimSegInfos(seg_infos) ==
    IF seg_infos # <<>> /\ seg_infos[Len(seg_infos)] = <<0, ZERO32>>
    THEN TrimSegInfos(SubSeq(seg_infos, 1, Len(seg_infos) - 1))
    ELSE seg_infos

\* the count check as an upper limit only
SegCountOk_AtMost(seg_infos) == Len(seg_infos) <= NUM_SEGMENTS

\* validate_eq(len(seg_infos), 6, "number of segments")
SegCountOk(seg_infos) == validate_eq(Len(seg_infos), NUM_SEGMENTS)

\* the slot size left unchecked
SegSizeOk_Unchecked(seg_size, sh_size) == TRUE

\* if seg_size != 0: validate_eq(seg_size, sh_size + calcsize(SEGHEADER_FORMAT), ...)
SegSizeOk(seg_size, sh_size) ==
    seg_size # 0 => validate_eq(seg_size, sh_size + SEGHEADER_LEN)

\* the data crc left unchecked
DataCrcOk_Skipped(sf_data_crc, sh_crc) == TRUE

\* validate_eq(sf_data_crc, sh_crc, "segment data crc")
DataCrcOk(sf_data_crc, sh_crc) == validate_eq(sf_data_crc, sh_crc)

\* validate_eq(0xFFFF_FFFF - running_crc, seg_crc, "segment running crc")
RunningCrcOk(running_crc, seg_crc) == validate_eq(Not32(running_crc), seg_crc)

\* validate_eq(running_crc, body_crc, "body crc")
BodyCrcOk(running_crc, body_crc) == validate_eq(running_crc, body_crc)

\* validate_padding(sh_padding)
SegPaddingOk(sh_padding) == validate_padding(sh_padding)

\* validate_padding(zero1), validate_padding(zero2)
HeaderPaddingOk(zero) == validate_padding(zero)

BodyFail(desc, nparsed) == [ok |-> FALSE, err |-> desc, nparsed |-> nparsed]

\* the loop over seg_infos, from segment i at cursor pos, and the checks after it
RECURSIVE DecodeSegments(_, _, _, _, _, _, _, _)
DecodeSegments(buf, pos, seg_infos, i, running_crc, body_crc, mds, segments) ==
    IF i > Len(seg_infos)
    THEN IF ~validate_eq(ReadN(buf, pos, -1), <<>>) THEN BodyFail("trailing data", i - 1)
         ELSE IF ~BodyCrcOk(running_crc, body_crc) THEN BodyFail("body crc", i - 1)
         ELSE [ok |-> TRUE, err |-> "", nparsed |-> i - 1, segs_md |-> mds, segments |-> segments]
    ELSE
      LET seg_size == seg_infos[i][1]
          seg_crc == seg_infos[i][2]
          sf_header == ReadN(buf, pos, SEGHEADER_LEN)
      IN IF Len(sf_header) # SEGHEADER_LEN THEN BodyFail("struct.error", i - 1)
         ELSE
           LET sh_crc == SubSeq(sf_header, 1, 4)
               sh_version == UnpackU32(SubSeq(sf_header, 5, 8))
               sh_date == UnpackU32(SubSeq(sf_header, 9, 12))
               sh_size == UnpackU32(SubSeq(sf_header, 13, 16))
               sh_extra1 == UnpackU32(SubSeq(sf_header, 17, 20))
               sh_extra2 == UnpackU32(SubSeq(sf_header, 21, 24))
               sh_magic == SubSeq(sf_header, 25, 28)
               sh_padding == SubSeq(sf_header, 29, SEGHEADER_LEN)
               sf_data == ReadN(buf, pos + SEGHEADER_LEN, sh_size)
               crc_h == crc32(sf_header, running_crc)
               crc_d == crc32(sf_data, crc_h)
               sf_data_crc == crc32(sf_data, ZERO32)
           IN IF ~validate_eq(sh_version, SEGMENT_VERSION) THEN BodyFail("segment version?", i)
              ELSE IF ~validate_eq(sh_magic, SEGMENT_MAGIC) THEN BodyFail("segment magic", i)
              ELSE IF ~SegPaddingOk(sh_padding) THEN BodyFail("padding", i)
              ELSE IF ~SegSizeOk(seg_size, sh_size) THEN BodyFail("segment size", i)
              ELSE IF ~DataCrcOk(sf_data_crc, sh_crc) THEN BodyFail("segment data crc", i)
              ELSE IF ~RunningCrcOk(crc_d, seg_crc) THEN BodyFail("segment running crc", i)
              ELSE DecodeSegments(buf, pos + SEGHEADER_LEN + Len(sf_data), seg_infos, i + 1,
                                  crc_d, body_crc,
                                  Append(mds, SegMetadata(sh_version, sh_date, sh_extra1, sh_extra2)),
                                  Append(segments, sf_data))

decode_body(buf) ==
    IF Len(buf) < HEADER1_LEN THEN BodyFail("struct.error", 0)
    ELSE
      LET zero1 == SubSeq(buf, 1, 32)
          magic == SubSeq(buf, 33, 36)
          body_crc == SubSeq(buf, 37, 40)
          zero2 == SubSeq(buf, 41, 48)
          slots_end == HEADER1_LEN + HEADER_SEG_LEN * HEADER_SEG_COUNT
      IN IF ~HeaderPaddingOk(zero1) THEN BodyFail("padding", 0)
         ELSE IF ~validate_eq(magic, HEADER_MAGIC) THEN BodyFail("header magic", 0)
         ELSE IF ~HeaderPaddingOk(zero2) THEN BodyFail("padding", 0)
         ELSE IF Len(buf) < slots_end THEN BodyFail("struct.error", 0)
         ELSE
           LET seg_infos == TrimSegInfos([k \in 1..HEADER_SEG_COUNT |-> SegInfoAt(buf, k)])
               extra == ReadN(buf, slots_end, HEADER_EXTRA_LEN)
           IN IF ~SegCountOk(seg_infos) THEN BodyFail("number of segments", 0)
              ELSE
                The({IF r.ok
                     THEN [ok |-> TRUE, err |-> "", nparsed |-> r.nparsed,
                           metadata |-> [header_extra |-> Hex(extra), segments |-> r.segs_md],
                           segments |-> r.segments]
                     ELSE r :
                        r \in {DecodeSegments(buf, slots_end + Len(extra), seg_infos, 1,
                                              ZERO32, body_crc, <<>>, <<>>)}})

\* pack(SEGHEADER_FORMAT, crc32(sf_data), version, date, len(sf_data), extra1, extra2, magic, b"")
SegHeader(seg_md, sf_data) ==
    crc32(sf_data, ZERO32) \o PackU32(seg_md.version) \o PackU32(seg_md.date)
    \o PackU32(Len(sf_data)) \o PackU32(seg_md.extra1) \o PackU32(seg_md.extra2)
    \o SEGMENT_MAGIC \o PackBytes(<<>>, SEGHEADER_PAD_LEN)

\* the loop over zip(metadata["segments"], segment_data):
\* <<body, running_crc, seg_infos>> after segments i..n
RECURSIVE EncodeSegments(_, _, _, _, _, _)
EncodeSegments(seg_mds, segment_data, i, body, running_crc, seg_infos) ==
    IF i > Len(seg_mds) THEN <<body, running_crc, seg_infos>>
    ELSE
      LET sf_data == segment_data[i]
          sf_header == SegHeader(seg_mds[i], sf_data)
          crc_d == crc32(sf_data, crc32(sf_header, running_crc))
          body1 == body \o sf_header \o sf_data
      IN \* (the test is always true: it fixes the order of evaluation)
         IF crc_d[1] >= 0 /\ Len(body1) >= 0
         THEN EncodeSegments(seg_mds, segment_data, i + 1, body1, crc_d,
                             Append(seg_infos, <<Len(sf_header) + Len(sf_data), Not32(crc_d)>>))
         ELSE <<body, running_crc, seg_infos>>

\* seg_infos[-1][0] = 0
ZeroLastSize(seg_infos) == [seg_infos EXCEPT ![Len(seg_infos)][1] = 0]

\* while len(seg_infos) < HEADER_SEG_COUNT: seg_infos.append([0, 0])
PadSegInfos(seg_infos) ==
    IF Len(seg_infos) < HEADER_SEG_COUNT
    THEN seg_infos \o [k \in 1..(HEADER_SEG_COUNT - Len(seg_infos)) |-> <<0, ZERO32>>]
    ELSE seg_infos

\* for i in range(HEADER_SEG_COUNT): header += pack(HEADER_SEG_FORMAT, *seg_infos[i])
RECURSIVE PackSegInfos(_, _)
PackSegInfos(seg_infos, k) ==
    IF k > HEADER_SEG_COUNT THEN <<>>
    ELSE PackU32(seg_infos[k][1]) \o seg_infos[k][2] \o PackSegInfos(seg_infos, k + 1)

encode_body(metadata, segment_data) ==
    IF ~validate_eq(Len(metadata.segments), Len(segment_data)) THEN Fail("number of segments")
    ELSE
      The({IF e[3] = <<>> THEN Fail("IndexError")
           ELSE [ok |-> TRUE, err |-> "",
                 data |-> PackBytes(<<>>, 32) \o HEADER_MAGIC \o e[2] \o PackBytes(<<>>, 8)
                          \o PackSegInfos(PadSegInfos(ZeroLastSize(e[3])), 1)
                          \o FromHex(metadata.header_extra) \o e[1]] :
              e \in {EncodeSegments(metadata.segments, segment_data, 1, <<>>, ZERO32, <<>>)}})

----------------------------------------------------------------------------
(* decode_fw and encode_fw                                                 *)

\* {**trailer_metadata, **header_metadata}
Metadata(trailer_md, header_md) ==
    [product_name |-> trailer_md.product_name, version_name |-> trailer_md.version_name,
     hw_id |-> trailer_md.hw_id, hw_rev |-> trailer_md.hw_rev,
     header_extra |-> header_md.header_extra, segments |-> header_md.segments]

DecodeBodyOf(t) ==
    The({IF ~b.ok THEN Fail(b.err)
         ELSE [ok |-> TRUE, err |-> "",
               metadata |-> Metadata(t.metadata, b.metadata), segments |-> b.segments] :
            b \in {decode_body(t.data)}})

decode_fw(buf) ==
    The({IF ~t.ok THEN Fail(t.err) ELSE DecodeBodyOf(t) : t \in {decode_trailer(buf)}})

encode_fw(metadata, segment_data) ==
    The({IF ~b.ok THEN b
         ELSE [ok |-> TRUE, err |-> "", data |-> b.data \o encode_trailer(metadata, b.data)] :
            b \in {encode_body(metadata, segment_data)}})

----------------------------------------------------------------------------
(* decode_romfs and encode_romfs.  A directory is a function from file     *)
(* names (strings) to file contents (bytes).                               *)

\* "__filelist__.txt"
FILELIST_NAME == <<95, 95, 102, 105, 108, 101, 108, 105, 115, 116, 95, 95, 46, 116, 120, 116>>

NoFiles == [n \in {} |-> <<>>]

\* open(dir / name, "wb").write(data)
WriteFile(files, name, data) ==
    [n \in (DOMAIN files) \cup {name} |-> IF n = name THEN data ELSE files[n]]

\* bytes.decode() of one- and two-byte sequences; anything else is an error
RECURSIVE Utf8Decode(_)
Utf8Decode(b) ==
    IF b = <<>> THEN [ok |-> TRUE, s |-> <<>>]
    ELSE IF b[1] < 128
    THEN LET r == Utf8Decode(Tail(b)) IN [ok |-> r.ok, s |-> <<b[1]>> \o r.s]
    ELSE IF b[1] \in 194..223 /\ Len(b) >= 2 /\ b[2] \in 128..191
    THEN LET r == Utf8Decode(SubSeq(b, 3, Len(b)))
         IN [ok |-> r.ok, s |-> <<(b[1] - 192) * 64 + (b[2] - 128)>> \o r.s]
    ELSE [ok |-> FALSE, s |-> <<>>]

\* unpack("<64sIII", ...) of directory entry i (1-based); the hash stays a word
RomEntryAt(buf, i) ==
    LET p == 8 + ROMFS_ENTRY_LEN * (i - 1)
    IN [name |-> SubSeq(buf, p + 1, p + ROMFS_NAME_LEN),
        size |-> UnpackU32(SubSeq(buf, p + 65, p + 68)),
        offset |-> UnpackU32(SubSeq(buf, p + 69, p + 72)),
        hash |-> SubSeq(buf, p + 73, p + 76)]

\* validate_eq(subf_offset % ROMFS_BLOCK_LEN, 0, "file must be block-aligned")
RomAlignedOk(subf_offset) == validate_eq(subf_offset % ROMFS_BLOCK_LEN, 0)

\* validate_eq(crc32(subf_data), subf_hash, "romfs file crc")
RomCrcOk(subf_data, subf_hash) == validate_eq(crc32(subf_data, ZERO32), subf_hash)

\* validate_padding(padding) of a gap or of the bytes after the last file
RomPaddingOk(padding) == validate_padding(padding)

\* the lines print() writes to __filelist__.txt, as the bytes of the file
RECURSIVE FileListText(_)
FileListText(names) ==
    IF names = <<>> THEN <<>>
    ELSE Utf8Encode(Head(names)) \o <<10>> \o FileListText(Tail(names))

\* the characters str.strip() removes, among the code points below 2048
Whitespace == {9, 10, 11, 12, 13, 28, 29, 30, 31, 32, 133, 160}

\* row.strip()
RECURSIVE Strip(_)
Strip(s) ==
    IF s = <<>> THEN s
    ELSE IF s[1] \in Whitespace THEN Strip(Tail(s))
    ELSE IF s[Len(s)] \in Whitespace THEN Strip(SubSeq(s, 1, Len(s) - 1))
    ELSE s

\* the rows of a text file opened in text mode: "\n", "\r" and "\r\n" end a row
RECURSIVE Rows(_, _)
Rows(text, row) ==
    IF text = <<>> THEN (IF row = <<>> THEN <<>> ELSE <<row>>)
    ELSE IF text[1] = 10 THEN <<row \o <<10>>>> \o Rows(Tail(text), <<>>)
    ELSE IF text[1] = 13
    THEN <<row \o <<10>>>> \o
         Rows(IF Len(text) >= 2 /\ text[2] = 10 THEN SubSeq(text, 3, Len(text)) ELSE Tail(text), <<>>)
    ELSE Rows(Tail(text), Append(row, text[1]))

\* filenames = [row.strip() for row in open(filelist)]
FileNames(text) == LET rows == Rows(text, <<>>) IN [i \in 1..Len(rows) |-> Strip(rows[i])]

\* padding only when not yet at a multiple of the block size: 0 to 2047 bytes
RomPadLen_UpToBoundary(n) == (ROMFS_BLOCK_LEN - (n % ROMFS_BLOCK_LEN)) % ROMFS_BLOCK_LEN

\* bytes(ROMFS_BLOCK_LEN - (len(data) % ROMFS_BLOCK_LEN)): 1 to 2048 bytes
RomPadLen(n) == ROMFS_BLOCK_LEN - (n % ROMFS_BLOCK_LEN)

\* the loop of encode_romfs over filenames, from the i-th
RECURSIVE EncodeRomFiles(_, _, _, _, _)
EncodeRomFiles(files, filenames, i, header, data) ==
    IF i > Len(filenames)
    THEN IF ~(Len(header) < ROMFS_HEADER_LEN) THEN Fail("AssertionError")
         ELSE [ok |-> TRUE, err |-> "",
               data |-> header \o Zeros(ROMFS_HEADER_LEN - Len(header)) \o data]
    ELSE
      LET filename == filenames[i]
      IN IF filename = <<>> THEN Fail("IsADirectoryError")
         ELSE IF filename \notin DOMAIN files THEN Fail("FileNotFoundError")
         ELSE
           LET subf_data == files[filename]
               entry == PackBytes(Utf8Encode(filename), ROMFS_NAME_LEN)
                        \o PackU32(Len(subf_data))
                        \o PackU32(Len(data) + ROMFS_HEADER_LEN)
                        \o crc32(subf_data, ZERO32)
               data1 == data \o subf_data
               data2 == data1 \o Zeros(RomPadLen(Len(data1)))
           IN EncodeRomFiles(files, filenames, i + 1, header \o entry, data2)

\* encode_romfs(indir).  Without a file list the names are Path objects,
\* which have no encode(): the loop fails on the first one.
encode_romfs(files) ==
    IF FILELIST_NAME \in DOMAIN files
    THEN LET t == Utf8Decode(files[FILELIST_NAME])
         IN IF ~t.ok THEN Fail("UnicodeDecodeError")
            ELSE LET filenames == FileNames(t.s)
                 IN EncodeRomFiles(files, filenames, 1,
                                   ROMFS_MAGIC \o PackU32(Len(filenames)), <<>>)
    ELSE IF DOMAIN files # {} THEN Fail("AttributeError")
    ELSE EncodeRomFiles(files, <<>>, 1, ROMFS_MAGIC \o PackU32(0), <<>>)

\* the names of the first n directory entries, as decode_romfs prints them
RomNames(buf, n) == [i \in 1..n |-> Utf8Decode(RStripNul(RomEntryAt(buf, i).name)).s]

----------------------------------------------------------------------------
(* The layout of a body, read from its bytes                               *)

\* the bytes of slot k (1-based) of the header's 16
SlotBytes(buf, k) ==
    SubSeq(buf, HEADER1_LEN + HEADER_SEG_LEN * (k - 1) + 1, HEADER1_LEN + HEADER_SEG_LEN * k)

\* the size field of slot k
SlotSizeField(buf, k) == UnpackU32(SubSeq(SlotBytes(buf, k), 1, 4))

\* how many slots are left once the trailing all-zero ones are dropped
SlotsLeft(buf) ==
    LET used == {k \in 1..HEADER_SEG_COUNT : SlotBytes(buf, k) # Zeros(HEADER_SEG_LEN)}
    IN IF used = {} THEN 0 ELSE CHOOSE k \in used : \A j \in used : j <= k

\* header1 is sound and the 16 slots are there: decoding gets to the segment count
ReachesSegCount(buf) ==
    /\ Len(buf) >= HEADER1_LEN + HEADER_SEG_LEN * HEADER_SEG_COUNT
    /\ SubSeq(buf, 1, 32) = Zeros(32)
    /\ SubSeq(buf, 33, 36) = HEADER_MAGIC
    /\ SubSeq(buf, 41, 48) = Zeros(8)

\* 0-based position of the header of segment k
RECURSIVE SegHeaderPos(_, _)
SegHeaderPos(buf, k) ==
    IF k = 1 THEN HEADER1_LEN + HEADER_SEG_LEN * HEADER_SEG_COUNT + HEADER_EXTRA_LEN
    ELSE LET p == SegHeaderPos(buf, k - 1)
         IN p + SEGHEADER_LEN + UnpackU32(SubSeq(buf, p + 13, p + 16))

\* the size field of the header of segment k
SegSizeField(buf, k) ==
    LET p == SegHeaderPos(buf, k) IN UnpackU32(SubSeq(buf, p + 13, p + 16))

----------------------------------------------------------------------------
(* Runs.  A run has a scenario (mode), set when it starts: "body",         *)
(* "trailer", "fw" or "romfs", each described where its actions are.       *)
(*   "body"     _encode_body on chosen metadata and payloads, then         *)
(*              _decode_body on the result, which the environment may      *)
(*              have altered in between                                    *)
(* The environment is whoever else writes the packed file: it changes      *)
(* bytes of it between two runs of the tool.                               *)

NoDir == [present |-> FALSE]
NoRes == [ok |-> FALSE, err |-> "not run"]
NoTamper == [kind |-> "none"]
NoRom == [idx |-> 0]

\* buf with the bytes b written at 0-based position pos
Overwrite(buf, pos, b) ==
    SubSeq(buf, 1, pos) \o b \o SubSeq(buf, pos + Len(b) + 1, Len(buf))

MaxPayloadLen == 2

\* a payload of n bytes
Payload(n, first) == SubSeq([i \in 1..n |-> (first + 16 * i) % 256], 1, n)

\* the payload lengths of a run: odd segments have a bytes, even ones b bytes
Payloads(n, a, b) == [k \in 1..n |-> IF k % 2 = 1 THEN Payload(a, k) ELSE Payload(b, 128 + k)]

\* metadata of n segments; x2 is the last segment's extra2
BodyMetadata(n, x2) ==
    [header_extra |-> Hex(SubSeq([i \in 1..HEADER_EXTRA_LEN |-> (i * (x2 % 8)) % 256],
                                 1, HEADER_EXTRA_LEN)),
     segments |-> [k \in 1..n |-> SegMetadata(SEGMENT_VERSION,
                                              IF x2 = 7 THEN 20221231 + k ELSE 0,
                                              IF x2 = 7 THEN 65536 * k ELSE 0,
                                              IF k = n THEN x2 ELSE 0)]]

SegCounts == {NUM_SEGMENTS - 1, NUM_SEGMENTS, NUM_SEGMENTS + 1}

Extra2Values == {0, 7, 541339281}

BodyInputs ==
    {[metadata |-> BodyMetadata(n, x2), segments |-> Payloads(n, a, b)] :
        n \in SegCounts, x2 \in Extra2Values, a \in 0..MaxPayloadLen, b \in 0..MaxPayloadLen}

BodyRuns(inputs) ==
    /\ mode = "body"
    /\ pc = "start"
    /\ inp \in inputs
    /\ file = <<>>
    /\ orig = <<>>
    /\ dir = NoDir
    /\ res = NoRes
    /\ tamper = NoTamper
    /\ rom = NoRom

BodyInit == BodyRuns(BodyInputs)

\* body = _encode_body(metadata, segment_data)
EncodeBodyStep ==
    /\ mode = "body"
    /\ pc = "start"
    /\ \E e \in {encode_body(inp.metadata, inp.segments)} :
          IF e.ok
          THEN /\ file' = e.data
               /\ orig' = e.data
               /\ pc' = "encoded"
               /\ res' = res
          ELSE /\ res' = e
               /\ pc' = "failed"
               /\ UNCHANGED <<file, orig>>
    /\ UNCHANGED <<mode, dir, inp, tamper, rom>>

\* the sizes the environment writes into slot k of a body of n segments
SlotSizes(k) ==
    IF k <= Len(inp.segments)
    THEN {0, 252 + Len(inp.segments[k]), SEGHEADER_LEN + Len(inp.segments[k]),
          SEGHEADER_LEN + Len(inp.segments[k]) + 1}
    ELSE {1}

\* the environment rewrites the size field of one slot of the body's header
PatchSlot ==
    /\ mode = "body"
    /\ pc = "encoded"
    /\ tamper = NoTamper
    /\ \E k \in 1..(NUM_SEGMENTS + 1) : \E sz \in SlotSizes(k) :
         /\ file' = Overwrite(file, HEADER1_LEN + HEADER_SEG_LEN * (k - 1), PackU32(sz))
         /\ file' # file
         /\ tamper' = [kind |-> "slot", k |-> k, size |-> sz]
    /\ UNCHANGED <<mode, pc, orig, dir, res, inp, rom>>

\* _decode_body(BytesIO(body))
DecodeBodyStep ==
    /\ mode = "body"
    /\ pc = "encoded"
    /\ res' = decode_body(file)
    /\ pc' = "decoded"
    /\ UNCHANGED <<mode, file, orig, dir, inp, tamper, rom>>

BodyNext == EncodeBodyStep \/ PatchSlot \/ DecodeBodyStep

SpecBody == BodyInit /\ [][BodyNext]_vars

----------------------------------------------------------------------------
(*   "trailer"  _encode_trailer on chosen metadata and a body, appended to *)
(*              the body as encode_fw does, then _decode_trailer           *)

\* a name of n characters, all "v" but the last
Name(n, lastc) == SubSeq([i \in 1..n |-> IF i = n THEN lastc ELSE 118], 1, n)

\* lengths around the 32 bytes of the field; last characters "1", NUL, e-acute
VersionLens == {0, 1, 2, 16, 17, 31, 32, 33}

VersionLastChars == {49, 0, 233}

VersionNames == {Name(n, c) : n \in VersionLens, c \in VersionLastChars}

ProductNames == {PRODUCT_NAME, <<111, 110, 101, 120, 50>>}

HwRevs == {HW_REV, HW_REV + 1}

TrailerBodies == {Payload(n, 7) : n \in 0..MaxPayloadLen}

TrailerInputs ==
    {[metadata |-> TrailerMetadata(p, v, HW_ID, r), body |-> b] :
        p \in ProductNames, v \in VersionNames, r \in HwRevs, b \in TrailerBodies}

TrailerInit ==
    /\ mode = "trailer"
    /\ pc = "start"
    /\ inp \in TrailerInputs
    /\ file = <<>>
    /\ orig = <<>>
    /\ dir = NoDir
    /\ res = NoRes
    /\ tamper = NoTamper
    /\ rom = NoRom

\* body + _encode_trailer(metadata, body)
EncodeTrailerStep ==
    /\ mode = "trailer"
    /\ pc = "start"
    /\ file' = inp.body \o encode_trailer(inp.metadata, inp.body)
    /\ orig' = file'
    /\ pc' = "encoded"
    /\ UNCHANGED <<mode, dir, res, inp, tamper, rom>>

\* _decode_trailer(file)
DecodeTrailerStep ==
    /\ mode = "trailer"
    /\ pc = "encoded"
    /\ res' = decode_trailer(file)
    /\ pc' = "decoded"
    /\ UNCHANGED <<mode, file, orig, dir, inp, tamper, rom>>

TrailerNext == EncodeTrailerStep \/ DecodeTrailerStep

SpecTrailer == TrailerInit /\ [][TrailerNext]_vars

----------------------------------------------------------------------------
(*   "fw"       unpack of a packed firmware file into a directory          *)
(*              (decode_fw), then pack of that directory (encode_fw)       *)
(* The directory holds metadata.json and the files f0.bin .. f5.bin.       *)
(* json.dump followed by json.load returns the dictionary it was given     *)
(* (strings, integers and a list of dictionaries of integers), so dir      *)
(* holds the metadata and the payloads as values; header_extra is in it    *)
(* as the hex string bytes.hex() made.                                     *)

\* the file pack writes for a version name and payloads of a and b bytes
FwCanon(v, a, b) ==
    The({encode_fw(m, Payloads(NUM_SEGMENTS, a, b)).data :
            m \in {Metadata(TrailerMetadata(PRODUCT_NAME, v, HW_ID, HW_REV),
                            BodyMetadata(NUM_SEGMENTS, 7))}})

\* what another packer does after changing bytes: both hashes are recomputed
Reseal(buf) ==
    LET n == Len(buf) - TRAILER_LEN - MD5_LEN
    IN The({The({body \o trailer \o Md5Digest(Md5Update(Md5Update(Md5Init, body), trailer)) :
                   trailer \in {Overwrite(SubSeq(buf, n + 1, n + TRAILER_LEN), 68,
                                           Md5Digest(Md5Update(Md5Init, body)))}}) :
               body \in {SubSeq(buf, 1, n)}})

\* files of other origin: a canonical file with one field written differently
FwPatches ==
    {[kind |-> "none"], [kind |-> "version"]}
    \cup {[kind |-> "slot", k |-> k, size |-> "zero"] : k \in 1..(NUM_SEGMENTS - 1)}
    \cup {[kind |-> "slot", k |-> NUM_SEGMENTS, size |-> "full"],
          [kind |-> "slot", k |-> 1, size |-> "one"]}

Patched(buf, patch) ==
    IF patch.kind = "none" THEN buf
    ELSE The({Reseal(changed) :
                 changed \in {IF patch.kind = "version"
                               THEN Overwrite(buf, Len(buf) - MD5_LEN - TRAILER_LEN + 36, <<233>>)
                               ELSE Overwrite(buf, HEADER1_LEN + HEADER_SEG_LEN * (patch.k - 1),
                                              IF patch.size = "zero" THEN ZERO32
                                              ELSE IF patch.size = "one" THEN PackU32(1)
                                              ELSE PackU32(SEGHEADER_LEN + SegSizeField(buf, patch.k)))}})

FwVersions == {Name(2, 49), Name(32, 49)}

FwInputs ==
    {[version |-> v, a |-> a, b |-> MaxPayloadLen, patch |-> q] :
        v \in FwVersions, a \in 0..MaxPayloadLen, q \in FwPatches}

FwRuns(inputs) ==
    /\ mode = "fw"
    /\ pc = "packed"
    /\ inp \in inputs
    /\ \E canon \in {FwCanon(inp.version, inp.a, inp.b)} : file = Patched(canon, inp.patch)
    /\ orig = <<>>
    /\ dir = NoDir
    /\ res = NoRes
    /\ tamper = NoTamper
    /\ rom = NoRom

FwInit == FwRuns(FwInputs)

\* unpack: decode_fw(open(fwfile, "rb"), fwdir); nothing is written unless
\* both decoders return
Unpack ==
    /\ mode = "fw"
    /\ pc = "packed"
    /\ orig' = file
    /\ \E r \in {decode_fw(file)} :
          IF r.ok
          THEN /\ dir' = [present |-> TRUE, metadata |-> r.metadata, segments |-> r.segments]
               /\ res' = [ok |-> TRUE, err |-> ""]
               /\ pc' = "unpacked"
          ELSE /\ dir' = dir
               /\ res' = Fail(r.err)
               /\ pc' = "failed"
    /\ UNCHANGED <<mode, file, inp, tamper, rom>>

\* pack: data = encode_fw(fwdir); open(fwfile, "wb").write(data)
Pack ==
    /\ mode = "fw"
    /\ pc = "unpacked"
    /\ dir.present
    /\ \E e \in {encode_fw(dir.metadata, dir.segments)} :
          IF e.ok
          THEN /\ file' = e.data
               /\ pc' = "repacked"
               /\ res' = res
          ELSE /\ file' = file
               /\ pc' = "failed"
               /\ res' = e
    /\ UNCHANGED <<mode, orig, dir, inp, tamper, rom>>

FwNext == Unpack \/ Pack

SpecFw == FwInit /\ [][FwNext]_vars

----------------------------------------------------------------------------
(*   "romfs"    pack-romfs of a directory (encode_romfs), then             *)
(*              unpack-romfs of the archive into an empty directory        *)
(*              (decode_romfs, one step per directory entry), then         *)
(*              pack-romfs of what was extracted                           *)

MaxRomFiles == 2

\* "a", "b"
NameA == <<97>>

NameB == <<98>>

\* the sizes of file "a": empty, one byte, one byte short of a block, a block
RomLens == {0, 1, ROMFS_BLOCK_LEN - 1, ROMFS_BLOCK_LEN}

\* file "b" has 10 bytes
RomLenB == 10

RECURSIVE NameLists(_)
NameLists(n) ==
    IF n = 0 THEN {<<>>}
    ELSE NameLists(n - 1)
         \cup {Append(l, x) : l \in {m \in NameLists(n - 1) : Len(m) = n - 1},
                              x \in {NameA, NameB, FILELIST_NAME}}

\* the directory pack-romfs is given: the listed files and the file list
RomDir(names, la) ==
    LET listed == {names[i] : i \in 1..Len(names)}
    IN [n \in (listed \ {FILELIST_NAME}) \cup {FILELIST_NAME} |->
          IF n = NameA THEN Payload(la, 65)
          ELSE IF n = NameB THEN Payload(RomLenB, 66)
          ELSE FileListText(names)]

RomDirs(maxfiles) == {RomDir(names, la) : names \in NameLists(maxfiles), la \in RomLens}

RomRuns(dirs) ==
    /\ mode = "romfs"
    /\ pc = "dir"
    /\ dir \in {[present |-> TRUE, files |-> f] : f \in dirs}
    /\ inp = dir.files
    /\ file = <<>>
    /\ orig = <<>>
    /\ res = NoRes
    /\ tamper = NoTamper
    /\ rom = NoRom

RomInit == RomRuns(RomDirs(MaxRomFiles))

\* pack-romfs: data = encode_romfs(fwdir); open(fwfile, "wb").write(data);
\* the next unpack-romfs is given a new, empty directory
PackRomfs ==
    /\ mode = "romfs"
    /\ pc = "dir"
    /\ \E e \in {encode_romfs(dir.files)} :
          IF e.ok
          THEN /\ file' = e.data
               /\ pc' = "packed"
               /\ res' = res
               /\ dir' = [present |-> TRUE, files |-> NoFiles]
          ELSE /\ file' = file
               /\ pc' = "failed"
               /\ res' = e
               /\ dir' = dir
    /\ UNCHANGED <<mode, orig, inp, tamper, rom>>

\* decode_romfs up to the loop: the magic, the count and the directory entries
RomStart ==
    /\ mode = "romfs"
    /\ pc = "packed"
    /\ orig' = file
    /\ LET head == ReadN(file, 0, 8)
       IN IF Len(head) # 8
          THEN /\ res' = Fail("struct.error") /\ pc' = "failed" /\ rom' = rom
          ELSE IF ~validate_eq(SubSeq(head, 1, 4), ROMFS_MAGIC)
          THEN /\ res' = Fail("romfs magic") /\ pc' = "failed" /\ rom' = rom
          ELSE LET subf_count == UnpackU32(SubSeq(head, 5, 8))
               IN IF Len(file) < 8 + ROMFS_ENTRY_LEN * subf_count
                  THEN /\ res' = Fail("struct.error") /\ pc' = "failed" /\ rom' = rom
                  ELSE /\ rom' = [idx |-> 0, count |-> subf_count,
                                  cursor |-> 8 + ROMFS_ENTRY_LEN * subf_count,
                                  events |-> <<>>]
                       /\ pc' = "reading"
                       /\ res' = res
    /\ UNCHANGED <<mode, file, dir, inp, tamper>>

RomFail(desc) ==
    /\ res' = Fail(desc)
    /\ pc' = "failed"
    /\ UNCHANGED <<rom, dir>>

\* one iteration of the loop of decode_romfs: entry rom.idx + 1
RomEntry ==
    /\ mode = "romfs"
    /\ pc = "reading"
    /\ rom.idx < rom.count
    /\ LET e == RomEntryAt(file, rom.idx + 1)
           subf_fn == Utf8Decode(RStripNul(e.name))
           padding == ReadN(file, rom.cursor, e.offset - rom.cursor)
           at == rom.cursor + Len(padding)
           subf_data == ReadN(file, at, e.size)
       IN IF ~subf_fn.ok THEN RomFail("UnicodeDecodeError")
          ELSE IF ~RomPaddingOk(padding) THEN RomFail("padding")
          ELSE IF ~RomAlignedOk(e.offset) THEN RomFail("file must be block-aligned")
          ELSE IF ~RomCrcOk(subf_data, e.hash) THEN RomFail("romfs file crc")
          ELSE IF subf_fn.s = <<>> THEN RomFail("IsADirectoryError")
          ELSE /\ dir' = [dir EXCEPT !.files = WriteFile(dir.files, subf_fn.s, subf_data)]
               /\ rom' = [rom EXCEPT !.idx = rom.idx + 1,
                                     !.cursor = at + Len(subf_data),
                                     !.events = Append(rom.events,
                                                       [kind |-> "payload", entry |-> rom.idx + 1,
                                                        name |-> subf_fn.s])]
               /\ UNCHANGED <<pc, res>>
    /\ UNCHANGED <<mode, file, orig, inp, tamper>>

\* decode_romfs after the loop: the trailing padding, then __filelist__.txt
RomFinish ==
    /\ mode = "romfs"
    /\ pc = "reading"
    /\ rom.idx = rom.count
    /\ IF ~RomPaddingOk(ReadN(file, rom.cursor, -1)) THEN RomFail("padding")
       ELSE /\ dir' = [dir EXCEPT !.files = WriteFile(dir.files, FILELIST_NAME,
                                                      FileListText(RomNames(file, rom.count)))]
            /\ rom' = [rom EXCEPT !.cursor = Len(file),
                                  !.events = Append(rom.events, [kind |-> "filelist"])]
            /\ res' = [ok |-> TRUE, err |-> ""]
            /\ pc' = "unpacked"
    /\ UNCHANGED <<mode, file, orig, inp, tamper>>

\* pack-romfs of the extracted directory
RepackRomfs ==
    /\ mode = "romfs"
    /\ pc = "unpacked"
    /\ \E e \in {encode_romfs(dir.files)} :
          IF e.ok
          THEN /\ file' = e.data /\ pc' = "repacked" /\ res' = res
          ELSE /\ file' = file /\ pc' = "failed" /\ res' = e
    /\ UNCHANGED <<mode, orig, dir, inp, tamper, rom>>

----------------------------------------------------------------------------
(* The environment changes one byte of a packed file, body or archive      *)

\* what is added to the byte
TamperDeltas == {1, 8}

\* the first, the middle and the last position of lo..hi
PadSamples(lo, hi) == IF lo > hi THEN {} ELSE {lo, (lo + hi) \div 2, hi}

\* 0-based positions in a body of the fields the checksums protect
CrcTargets(buf) ==
    {[kind |-> "payload", pos |-> SegHeaderPos(buf, k) + SEGHEADER_LEN + j] :
        k \in 1..NUM_SEGMENTS, j \in 0..(MaxPayloadLen - 1)}
    \cup {[kind |-> "data_crc", pos |-> SegHeaderPos(buf, k) + j] : k \in 1..NUM_SEGMENTS, j \in 0..3}
    \cup {[kind |-> "body_crc", pos |-> 36 + j] : j \in 0..3}

\* the payload positions that exist in this body
InPayload(buf, t) ==
    t.kind = "payload" =>
        \E k \in 1..NUM_SEGMENTS :
            LET p == SegHeaderPos(buf, k) + SEGHEADER_LEN
            IN t.pos >= p /\ t.pos < p + SegSizeField(buf, k)

\* 0-based positions in a body of bytes of its zero padding
PadTargets(buf) ==
    {[kind |-> "pad", pos |-> q] : q \in PadSamples(0, 31) \cup PadSamples(40, 47)}
    \cup {[kind |-> "pad", pos |-> q] :
            q \in UNION {PadSamples(SegHeaderPos(buf, k) + 28, SegHeaderPos(buf, k) + SEGHEADER_LEN - 1) :
                            k \in 1..NUM_SEGMENTS}}

\* 0-based positions in a file of the two hashes of the trailer
HashTargets(buf) ==
    {[kind |-> "body_hash", pos |-> Len(buf) - MD5_LEN - TRAILER_LEN + 68 + j] : j \in 0..(MD5_LEN - 1)}
    \cup {[kind |-> "final_hash", pos |-> Len(buf) - MD5_LEN + j] : j \in 0..(MD5_LEN - 1)}

Corrupted(buf, pos, d) == Overwrite(buf, pos, <<(buf[pos + 1] + d) % 256>>)

\* a body that decoded is changed in one byte and will be decoded again
CorruptBody ==
    /\ mode = "body"
    /\ pc = "decoded"
    /\ res.ok
    /\ tamper = NoTamper
    /\ \E t \in {u \in CrcTargets(file) : InPayload(file, u)} \cup PadTargets(file) :
       \E d \in TamperDeltas :
         /\ file' = Corrupted(file, t.pos, d)
         /\ tamper' = t
    /\ pc' = "encoded"
    /\ res' = NoRes
    /\ UNCHANGED <<mode, orig, dir, inp, rom>>

\* a file that unpacked is changed in one byte and will be unpacked again
CorruptFw ==
    /\ mode = "fw"
    /\ pc = "unpacked"
    /\ tamper = NoTamper
    /\ \E t \in {u \in CrcTargets(file) : InPayload(file, u)} \cup HashTargets(file) :
       \E d \in TamperDeltas :
         /\ file' = Corrupted(file, t.pos, d)
         /\ tamper' = t
    /\ pc' = "packed"
    /\ res' = NoRes
    /\ UNCHANGED <<mode, orig, dir, inp, rom>>

\* the number of directory entries an archive declares
RomCount(buf) == UnpackU32(SubSeq(buf, 5, 8))

\* 0-based end of the payload of entry i; of the directory for i = 0
RomEnd(buf, i) ==
    IF i = 0 THEN 8 + ROMFS_ENTRY_LEN * RomCount(buf)
    ELSE RomEntryAt(buf, i).offset + RomEntryAt(buf, i).size

\* 0-based start of what follows entry i: the next payload or the end of the archive
RomNextStart(buf, i) ==
    IF i < RomCount(buf) THEN RomEntryAt(buf, i + 1).offset ELSE Len(buf)

\* 0-based positions in an archive: padding after entry i (after the directory
\* for i = 0), and the first payload byte, the crc and the offset of entry i
RomTargets(buf) ==
    UNION {{[kind |-> "pad", entry |-> i, pos |-> q] :
               q \in PadSamples(RomEnd(buf, i), RomNextStart(buf, i) - 1)} : i \in 0..RomCount(buf)}
    \cup UNION {{[kind |-> "payload", entry |-> i, pos |-> RomEntryAt(buf, i).offset],
                 [kind |-> "crc", entry |-> i, pos |-> 8 + ROMFS_ENTRY_LEN * (i - 1) + 72],
                 [kind |-> "offset", entry |-> i, pos |-> 8 + ROMFS_ENTRY_LEN * (i - 1) + 69]}
                \ (IF RomEntryAt(buf, i).size = 0
                   THEN {[kind |-> "payload", entry |-> i, pos |-> RomEntryAt(buf, i).offset]}
                   ELSE {}) : i \in 1..RomCount(buf)}

\* an archive is changed in one byte before it is unpacked
CorruptRom ==
    /\ mode = "romfs"
    /\ pc = "packed"
    /\ tamper = NoTamper
    /\ \E t \in RomTargets(file) : \E d \in TamperDeltas :
         /\ file' = Corrupted(file, t.pos, d)
         /\ tamper' = t
    /\ UNCHANGED <<mode, pc, orig, dir, res, inp, rom>>

\* the zero bytes another packer leaves after the last file: one more, a block more
ExtendLens == {1, ROMFS_BLOCK_LEN}

\* an archive gets more zero bytes at its end before it is unpacked
ExtendRom ==
    /\ mode = "romfs"
    /\ pc = "packed"
    /\ tamper = NoTamper
    /\ \E n \in ExtendLens :
         /\ file' = file \o Zeros(n)
         /\ tamper' = [kind |-> "extend", n |-> n]
    /\ UNCHANGED <<mode, pc, orig, dir, res, inp, rom>>

RomNext ==
    PackRomfs \/ CorruptRom \/ ExtendRom \/ RomStart \/ RomEntry \/ RomFinish \/ RepackRomfs

SpecRomfs == RomInit /\ [][RomNext]_vars

----------------------------------------------------------------------------
(* Runs in which the environment changes a byte, in the three modes        *)

TamperInit ==
    \/ BodyRuns({[metadata |-> BodyMetadata(NUM_SEGMENTS, 7),
                  segments |-> Payloads(NUM_SEGMENTS, a, MaxPayloadLen)] : a \in 0..MaxPayloadLen})
    \/ FwRuns({[version |-> Name(2, 49), a |-> a, b |-> MaxPayloadLen, patch |-> [kind |-> "none"]] :
                  a \in 0..MaxPayloadLen})
    \/ RomRuns({RomDir(<<NameA, NameB>>, la) : la \in RomLens})

TamperNext ==
    \/ EncodeBodyStep \/ CorruptBody \/ DecodeBodyStep
    \/ Unpack \/ CorruptFw
    \/ PackRomfs \/ CorruptRom \/ RomStart \/ RomEntry \/ RomFinish

SpecTamper == TamperInit /\ [][TamperNext]_vars

----------------------------------------------------------------------------
(* Claims                                                                  *)

\* C2: for metadata of six segments and six payloads, decoding what
\* _encode_body produced succeeds and gives back the metadata and the payloads.
C2_EncodeThenDecodeBody ==
    (mode = "body" /\ pc = "decoded" /\ tamper = NoTamper /\ Len(inp.segments) = NUM_SEGMENTS)
    => (res.ok /\ res.metadata = inp.metadata /\ res.segments = inp.segments)

\* C6: once the trailing (0, 0) slots are dropped, _decode_body fails on the
\* number of segments, before it parses any segment, exactly when the slots
\* left are not 6; it accepts no body with another count.
C6_SegmentCount ==
    (mode = "body" /\ pc = "decoded" /\ ReachesSegCount(file))
    => /\ SlotsLeft(file) # 6 =>
            (~res.ok /\ res.err = "number of segments" /\ res.nparsed = 0)
       /\ SlotsLeft(file) = 6 => res.err # "number of segments"

C6_Witness ==
    /\ mode = "body" /\ pc = "decoded" /\ tamper.kind = "slot"
    /\ ReachesSegCount(file) /\ SlotsLeft(file) = 7
    /\ res.err = "number of segments"

\* C9 as stated: an accepted body has, in every slot but the last, a size
\* field equal to 252 plus the size field of that segment's header.
C9_SlotSizeIs252PlusSize ==
    (mode = "body" /\ pc = "decoded" /\ res.ok)
    => \A k \in 1..(NUM_SEGMENTS - 1) : SlotSizeField(file, k) = 252 + SegSizeField(file, k)

\* C9 as amended: an accepted body has, in every slot, a size field that is 0
\* or equals 256 (the length of a segment header) plus the size field of that
\* segment's header; a slot with any other size is rejected.
C9_SlotSizeZeroOrHeaderPlusSize ==
    (mode = "body" /\ pc = "decoded" /\ res.ok)
    => \A k \in 1..NUM_SEGMENTS :
         \/ SlotSizeField(file, k) = 0
         \/ SlotSizeField(file, k) = SEGHEADER_LEN + SegSizeField(file, k)

C9_Witness ==
    /\ mode = "body" /\ pc = "decoded" /\ res.ok
    /\ tamper.kind = "slot" /\ tamper.k < NUM_SEGMENTS
    /\ SlotSizeField(file, tamper.k) = 0
    /\ \E k \in 1..NUM_SEGMENTS : SlotSizeField(file, k) = SEGHEADER_LEN + SegSizeField(file, k)

\* the metadata names this device's firmware
ValidTrailerMetadata(m) ==
    m.product_name = PRODUCT_NAME /\ m.hw_id = HW_ID /\ m.hw_rev = HW_REV

\* C3: for valid metadata with any version_name and any body, decoding
\* body || trailer || final hash succeeds and returns (m, b).
C3_TrailerRoundTripAnyVersion ==
    (mode = "trailer" /\ pc = "decoded" /\ ValidTrailerMetadata(inp.metadata))
    => (res.ok /\ res.metadata = inp.metadata /\ res.data = inp.body)

\* C1: whenever unpack accepted a file, pack of the unmodified directory
\* writes exactly the bytes that were unpacked.
C1_UnpackThenPackIdentical ==
    (mode = "fw" /\ pc = "repacked") => file = orig

\* C4: once a body or a file has decoded, a change of one byte of a payload,
\* of a data_crc field, of body_crc or of a trailer hash makes the next decode
\* fail, with the error of the checksum that covers the byte: "segment data
\* crc" or "body crc" from _decode_body, "final hash" from decode_fw.
C4_TamperDetected ==
    /\ (mode = "body" /\ pc = "decoded" /\ tamper.kind \in {"payload", "data_crc"})
       => (~res.ok /\ res.err = "segment data crc")
    /\ (mode = "body" /\ pc = "decoded" /\ tamper.kind = "body_crc")
       => (~res.ok /\ res.err = "body crc")
    /\ (mode = "fw" /\ tamper # NoTamper)
       => (pc \in {"packed", "failed"} /\ (pc = "failed" => (~res.ok /\ res.err = "final hash")))

C4_Witness ==
    /\ mode = "body" /\ pc = "decoded" /\ tamper.kind = "payload"
    /\ file # orig /\ Len(file) = Len(orig)
    /\ ~res.ok /\ res.err = "segment data crc"

\* some byte of header1's two pads or of a segment header's pad is not zero
BodyPadNonzero(buf) ==
    \/ \E q \in (1..32) \cup (41..48) : buf[q] # 0
    \/ \E k \in 1..NUM_SEGMENTS :
         \E q \in (SegHeaderPos(buf, k) + 29)..(SegHeaderPos(buf, k) + SEGHEADER_LEN) : buf[q] # 0

\* some byte is not zero between the end of an entry's payload (of the
\* directory, for the first entry) and the next entry's offset, or after the
\* last payload
RomPadNonzero(buf) ==
    \E i \in 0..RomCount(buf) :
        \E q \in (RomEnd(buf, i) + 1)..Min(RomNextStart(buf, i), Len(buf)) : buf[q] # 0

\* C5: _decode_body fails on a body with a non-zero byte in header1's pads or
\* in a segment header's pad, and decode_romfs fails on an archive with a
\* non-zero byte in a gap before an entry's offset or after the last file;
\* when that byte is the only change to a sound input the error is "padding".
C5_PaddingEnforced ==
    /\ (mode = "body" /\ pc = "decoded" /\ BodyPadNonzero(file)) => ~res.ok
    /\ (mode = "body" /\ pc = "decoded" /\ tamper.kind = "pad") => res.err = "padding"
    /\ (mode = "romfs" /\ pc = "unpacked") => ~RomPadNonzero(file)
    /\ (mode = "romfs" /\ tamper.kind = "pad" /\ pc \notin {"packed", "reading"})
       => (pc = "failed" /\ res.err = "padding")

C5_Witness ==
    /\ mode = "romfs" /\ pc = "failed" /\ tamper.kind = "pad" /\ tamper.entry = 1
    /\ RomPadNonzero(file) /\ res.err = "padding"

\* the file names pack-romfs was given, in the order of the file list
RomInputNames == FileNames(Utf8Decode(inp[FILELIST_NAME]).s)

\* the first 2048-byte boundary at or after position p, and the first one after it
BoundaryAtOrAfter(p) == ((p + ROMFS_BLOCK_LEN - 1) \div ROMFS_BLOCK_LEN) * ROMFS_BLOCK_LEN

BoundaryAfter(p) == (p \div ROMFS_BLOCK_LEN + 1) * ROMFS_BLOCK_LEN

\* the archive buf holds the files named by names, in order: the first at
\* 0xA000, each later one at Boundary(end of the one before), every offset a
\* multiple of 2048 and the position of the payload, zero bytes in between
\* and up to Boundary(end of the last)
RomPlaced(Boundary(_), buf, files, names) ==
    /\ RomCount(buf) = Len(names)
    /\ names # <<>> => RomEntryAt(buf, 1).offset = ROMFS_HEADER_LEN
    /\ \A i \in 1..Len(names) :
         LET e == RomEntryAt(buf, i)
         IN /\ e.offset % ROMFS_BLOCK_LEN = 0
            /\ e.size = Len(files[names[i]])
            /\ SubSeq(buf, e.offset + 1, e.offset + e.size) = files[names[i]]
            /\ IF i < Len(names)
               THEN RomEntryAt(buf, i + 1).offset = Boundary(e.offset + e.size)
               ELSE Len(buf) = Boundary(e.offset + e.size)
    /\ ~RomPadNonzero(buf)

\* C7 as stated: encode_romfs puts the first file at 0xA000 and every later one
\* at the next 2048-byte boundary >= the end of the file before it.
C7_PlacedAtBoundaryAtOrAfterEnd ==
    (mode = "romfs" /\ pc = "packed" /\ tamper = NoTamper)
    => RomPlaced(BoundaryAtOrAfter, file, inp, RomInputNames)

\* C7 as amended: every later file is at the first 2048-byte boundary strictly
\* after the end of the file before it, so 1 to 2048 zero bytes follow each
\* payload; the rest of the claim is unchanged.
C7_PlacedAtBoundaryAfterEnd ==
    (mode = "romfs" /\ pc = "packed" /\ tamper = NoTamper)
    => RomPlaced(BoundaryAfter, file, inp, RomInputNames)

C7_Witness ==
    /\ mode = "romfs" /\ pc = "packed" /\ tamper = NoTamper
    /\ RomCount(file) = 2
    /\ RomEntryAt(file, 1).size = ROMFS_BLOCK_LEN
    /\ RomEntryAt(file, 2).offset = ROMFS_HEADER_LEN + 2 * ROMFS_BLOCK_LEN
    /\ RomEntryAt(file, 2).size = RomLenB

\* C8: whenever unpack-romfs accepted an archive, pack-romfs of the extracted
\* directory writes exactly the bytes that were unpacked.
C8_DecodeThenEncodeIdentical ==
    (mode = "romfs" /\ pc = "repacked") => file = orig

\* entry i of the archive passes the three checks of the loop: zero bytes from
\* the end of what precedes it to its offset, an aligned offset, a matching crc
RomEntryValid(buf, i) ==
    LET e == RomEntryAt(buf, i)
    IN /\ \A q \in (RomEnd(buf, i - 1) + 1)..Min(e.offset, Len(buf)) : buf[q] = 0
       /\ e.offset % ROMFS_BLOCK_LEN = 0
       /\ crc32(SubSeq(buf, Min(e.offset, Len(buf)) + 1, Min(e.offset + e.size, Len(buf))), ZERO32)
          = e.hash

\* the errors validate_eq and validate_padding raise in decode_romfs
RomValidationErrors == {"romfs magic", "padding", "file must be block-aligned", "romfs file crc"}

\* every payload written so far belongs to an entry that passes its checks, and
\* the file list is written last, after all entries and the trailing padding
RomWritesFollowChecks ==
    (mode = "romfs" /\ rom # NoRom) =>
        /\ \A j \in 1..Len(rom.events) :
             IF rom.events[j].kind = "payload"
             THEN /\ rom.events[j].entry = j
                  /\ j <= rom.idx
                  /\ RomEntryValid(orig, j)
             ELSE /\ j = rom.count + 1
                  /\ \A i \in 1..rom.count : RomEntryValid(orig, i)
                  /\ \A q \in (RomEnd(orig, rom.count) + 1)..Len(orig) : orig[q] = 0
        /\ (pc = "failed" /\ res.err \in RomValidationErrors) => Len(rom.events) = rom.idx

\* C10: in decode_romfs a payload is written only once its entry has passed
\* the padding, alignment and crc checks, __filelist__.txt only after every
\* entry and the trailing padding, and a run that raises a validation error
\* has written neither __filelist__.txt nor the payload of the failing entry
\* or of a later one.
C10_WritesFollowChecks ==
    /\ RomWritesFollowChecks
    /\ (mode = "romfs" /\ pc = "failed" /\ res.err \in RomValidationErrors)
       => FILELIST_NAME \notin DOMAIN dir.files

====
